---- MODULE Spec2Model ----
(***************************************************************************)
(* The two demo backends of the repository as one state machine:           *)
(*   - the Flask app (docker-compose-python/app.py): GET /, /health and    *)
(*     /counter;                                                           *)
(*   - the Django app (python/demo/urls.py): GET / and /health/.           *)
(* The database, the cache and the stored key 'hits' are the environment:  *)
(* they change reachability at any time.  Every request is a process whose *)
(* steps are the handler's interactions with the database and the cache.   *)
(***************************************************************************)
EXTENDS Naturals, Sequences, FiniteSets, TLC

\* Number of requests of one behaviour (each runs one handler once).
NumReq == 3
\* Number of requests of a behaviour that probes the dependencies.
NumProbeReq == 2
\* Largest value the key 'hits' may hold before the first request.
MaxStartHits == 1

Req == 1..NumReq

\* What a dependency does with a connection attempt or a command:
\* answers, refuses the connection, rejects the credentials, never answers.
DepStates == {"up", "refused", "authfail", "silent"}

Kinds == {"home", "health", "counter", "dj_home", "dj_health"}

VARIABLES
    db,            \* how the database answers now
    cache,         \* how the cache answers now
    hits,          \* the integer stored under 'hits' (0: key absent)
    startHits,     \* history: the value of 'hits' before the first request
    kind,          \* kind[r]: the endpoint request r was routed to
    pc,            \* pc[r]: position of request r in its handler
    db_status,     \* local db_status of the handler of r
    redis_status,  \* local redis_status of the handler of r
    count,         \* local count of counter()
    response,      \* the response of r once its handler has returned
    connDb,        \* r holds an open database connection
    connRedis,     \* the Redis client of r holds an open connection
    dbSeen,        \* history: the database's answer to the probe of r
    redisSeen,     \* history: the cache's answer to the probe of r
    incrCalls      \* history: increment requests r sent to the store

vars == <<db, cache, hits, startHits, kind, pc, db_status, redis_status, count,
          response, connDb, connRedis, dbSeen, redisSeen, incrCalls>>


NoResponse == [code |-> 0, body |-> <<>>]

----------------------------------------------------------------------------
\* The collaborators.

\* str(e) of the exception psycopg2.connect / cursor.execute raises.
DbDetail(s) ==
    CASE s = "refused" -> "connection refused"
      [] s = "authfail" -> "password authentication failed"
      [] OTHER -> ""

\* str(e) of the exception redis-py raises for a command.
RedisDetail(s) ==
    CASE s = "refused" -> "Error 111 connecting to redis:6379"
      [] s = "authfail" -> "NOAUTH Authentication required"
      [] OTHER -> ""

Details == {DbDetail(s) : s \in DepStates \ {"up", "silent"}}
           \cup {RedisDetail(s) : s \in DepStates \ {"up", "silent"}}

\* A command leaves a connection open in the client's pool when the
\* server was reached, also when it answered with an error.
RedisHolds(s) == s \in {"up", "authfail"}

\* The store's INCR: one indivisible read-modify-write, returns the new value.
StoreIncr(v) == v + 1

----------------------------------------------------------------------------
\* Response construction.

KeyRank(k) ==
    CASE k = "database" -> 1
      [] k = "environment" -> 2
      [] k = "hostname" -> 3
      [] k = "message" -> 4
      [] k = "redis" -> 5
      [] k = "status" -> 6
      [] k = "visits" -> 7

\* Faulty variant of jsonify: the keys sorted in descending order.
JsonifyReversed(pairs) ==
    LET n == Len(pairs)
        pos(i) == Cardinality({j \in 1..n :
                      KeyRank(pairs[j][1]) > KeyRank(pairs[i][1])}) + 1
    IN  [code |-> 200,
         body |-> [p \in 1..n |-> pairs[CHOOSE i \in 1..n : pos(i) = p]]]

\* Flask's jsonify: the dict serialised with its keys sorted, status 200.
jsonify(pairs) ==
    LET n == Len(pairs)
        pos(i) == Cardinality({j \in 1..n :
                      KeyRank(pairs[j][1]) < KeyRank(pairs[i][1])}) + 1
    IN  [code |-> 200,
         body |-> [p \in 1..n |-> pairs[CHOOSE i \in 1..n : pos(i) = p]]]

\* Django's JsonResponse: the dict serialised in insertion order, status 200.
JsonResponse(pairs) == [code |-> 200, body |-> pairs]

\* What Flask answers when the view raises: 500 Internal Server Error.
InternalServerError == [code |-> 500, body |-> <<>>]

HasKey(resp, k) == \E i \in DOMAIN resp.body : resp.body[i][1] = k
Index(resp, k) == CHOOSE i \in DOMAIN resp.body : resp.body[i][1] = k
Get(resp, k) == resp.body[Index(resp, k)][2]

Hostname == "web-1"
AppEnv == "development"

Connected == "connected"
ErrorStatus(detail) == "error: " \o detail

\* The 'status' entry of the Flask health report.
HealthStatus(dbs, rs) == "healthy"

Entry(k) ==
    CASE k = "home" -> "home"
      [] k = "health" -> "h_db"
      [] k = "counter" -> "c_incr"
      [] k = "dj_home" -> "dj_probe"
      [] k = "dj_health" -> "dj_health"
      [] OTHER -> "idle"

----------------------------------------------------------------------------
KindRank(k) ==
    CASE k = "home" -> 1
      [] k = "health" -> 2
      [] k = "counter" -> 3
      [] k = "dj_home" -> 4
      [] k = "dj_health" -> 5
      [] OTHER -> 6

\* The state before any handler has taken a step: the first n requests are
\* routed to endpoints of K, the others never arrive, and 'hits' holds a value
\* of S.  Request numbers carry no meaning, so the requests are numbered by
\* endpoint.
InitOf(K, n, S) ==
    /\ db \in DepStates
    /\ cache \in DepStates
    /\ startHits \in S
    /\ hits = startHits
    /\ kind \in [Req -> K \cup {"none"}]
    /\ \A r \in Req : kind[r] = "none" <=> r > n
    /\ \A r \in 1..(n - 1) : KindRank(kind[r]) <= KindRank(kind[r + 1])
    /\ pc = [r \in Req |-> Entry(kind[r])]
    /\ db_status = [r \in Req |-> ""]
    /\ redis_status = [r \in Req |-> ""]
    /\ count = [r \in Req |-> 0]
    /\ response = [r \in Req |-> NoResponse]
    /\ connDb = [r \in Req |-> FALSE]
    /\ connRedis = [r \in Req |-> FALSE]
    /\ dbSeen = [r \in Req |-> "none"]
    /\ redisSeen = [r \in Req |-> "none"]
    /\ incrCalls = [r \in Req |-> 0]

Init == InitOf(Kinds, NumProbeReq, 0..MaxStartHits)

----------------------------------------------------------------------------
\* The environment.

DbChange ==
    /\ \E s \in DepStates \ {db} : db' = s
    /\ UNCHANGED <<cache, hits, startHits, kind, pc, db_status, redis_status,
                   count, response, connDb, connRedis, dbSeen, redisSeen,
                   incrCalls>>

CacheChange ==
    /\ \E s \in DepStates \ {cache} : cache' = s
    /\ UNCHANGED <<db, hits, startHits, kind, pc, db_status, redis_status,
                   count, response, connDb, connRedis, dbSeen, redisSeen,
                   incrCalls>>

----------------------------------------------------------------------------
\* Flask: GET /

\* Faulty variant of Home: the view counts its own visit in 'hits'.
HomeCountsVisit(r) ==
    /\ pc[r] = "home"
    /\ hits' = StoreIncr(hits)
    /\ response' = [response EXCEPT ![r] =
           jsonify(<< <<"message", "Hello from Docker Compose!">>,
                      <<"hostname", Hostname>>,
                      <<"environment", AppEnv>> >>)]
    /\ pc' = [pc EXCEPT ![r] = "done"]
    /\ UNCHANGED <<db, cache, startHits, kind, db_status, redis_status,
                   count, connDb, connRedis, dbSeen, redisSeen, incrCalls>>

Home(r) ==
    /\ pc[r] = "home"
    /\ response' = [response EXCEPT ![r] =
           jsonify(<< <<"message", "Hello from Docker Compose!">>,
                      <<"hostname", Hostname>>,
                      <<"environment", AppEnv>> >>)]
    /\ pc' = [pc EXCEPT ![r] = "done"]
    /\ UNCHANGED <<db, cache, hits, startHits, kind, db_status, redis_status,
                   count, connDb, connRedis, dbSeen, redisSeen, incrCalls>>

----------------------------------------------------------------------------
\* Flask: GET /health

\* Faulty variant of HealthDbConnect: a failed database probe ends the
\* checks, the cache is not probed.
HealthDbConnectSkip(r) ==
    /\ pc[r] = "h_db"
    /\ db # "silent"
    /\ dbSeen' = [dbSeen EXCEPT ![r] = db]
    /\ IF db = "up"
       THEN /\ connDb' = [connDb EXCEPT ![r] = TRUE]
            /\ pc' = [pc EXCEPT ![r] = "h_dbclose"]
            /\ UNCHANGED db_status
       ELSE /\ db_status' = [db_status EXCEPT ![r] = ErrorStatus(DbDetail(db))]
            /\ pc' = [pc EXCEPT ![r] = "h_ret"]
            /\ UNCHANGED connDb
    /\ UNCHANGED <<db, cache, hits, startHits, kind, redis_status, count,
                   response, connRedis, redisSeen, incrCalls>>

\* try: conn = get_db_connection() ... except Exception as e: db_status = ...
\* A database that never answers leaves the call blocked: no timeout is set.
HealthDbConnect(r) ==
    /\ pc[r] = "h_db"
    /\ db # "silent"
    /\ dbSeen' = [dbSeen EXCEPT ![r] = db]
    /\ IF db = "up"
       THEN /\ connDb' = [connDb EXCEPT ![r] = TRUE]
            /\ pc' = [pc EXCEPT ![r] = "h_dbclose"]
            /\ UNCHANGED db_status
       ELSE /\ db_status' = [db_status EXCEPT ![r] = ErrorStatus(DbDetail(db))]
            /\ pc' = [pc EXCEPT ![r] = "h_redis"]
            /\ UNCHANGED connDb
    /\ UNCHANGED <<db, cache, hits, startHits, kind, redis_status, count,
                   response, connRedis, redisSeen, incrCalls>>

\* conn.close(); db_status = 'connected'
HealthDbClose(r) ==
    /\ pc[r] = "h_dbclose"
    /\ connDb' = [connDb EXCEPT ![r] = FALSE]
    /\ db_status' = [db_status EXCEPT ![r] = Connected]
    /\ pc' = [pc EXCEPT ![r] = "h_redis"]
    /\ UNCHANGED <<db, cache, hits, startHits, kind, redis_status, count,
                   response, connRedis, dbSeen, redisSeen, incrCalls>>

\* Faulty variant of HealthRedisPing: the except clause is missing, a failed
\* ping leaves the view.
HealthRedisPingRaises(r) ==
    /\ pc[r] = "h_redis"
    /\ cache # "silent"
    /\ redisSeen' = [redisSeen EXCEPT ![r] = cache]
    /\ connRedis' = [connRedis EXCEPT ![r] = RedisHolds(cache)]
    /\ IF cache = "up"
       THEN /\ redis_status' = [redis_status EXCEPT ![r] = Connected]
            /\ pc' = [pc EXCEPT ![r] = "h_ret"]
            /\ UNCHANGED response
       ELSE /\ response' = [response EXCEPT ![r] = InternalServerError]
            /\ pc' = [pc EXCEPT ![r] = "done"]
            /\ UNCHANGED redis_status
    /\ UNCHANGED <<db, cache, hits, startHits, kind, db_status, count,
                   connDb, dbSeen, incrCalls>>

\* try: r = get_redis(); r.ping() ... except Exception as e: redis_status = ...
HealthRedisPing(r) ==
    /\ pc[r] = "h_redis"
    /\ cache # "silent"
    /\ redisSeen' = [redisSeen EXCEPT ![r] = cache]
    /\ connRedis' = [connRedis EXCEPT ![r] = RedisHolds(cache)]
    /\ redis_status' = [redis_status EXCEPT ![r] =
           IF cache = "up" THEN Connected ELSE ErrorStatus(RedisDetail(cache))]
    /\ pc' = [pc EXCEPT ![r] = "h_ret"]
    /\ UNCHANGED <<db, cache, hits, startHits, kind, db_status, count,
                   response, connDb, dbSeen, incrCalls>>

\* return jsonify({'status': 'healthy', 'database': ..., 'redis': ...})
HealthReturn(r) ==
    /\ pc[r] = "h_ret"
    /\ response' = [response EXCEPT ![r] =
           jsonify(<< <<"status", HealthStatus(db_status[r], redis_status[r])>>,
                      <<"database", db_status[r]>>,
                      <<"redis", redis_status[r]>> >>)]
    /\ pc' = [pc EXCEPT ![r] = "done"]
    /\ UNCHANGED <<db, cache, hits, startHits, kind, db_status, redis_status,
                   count, connDb, connRedis, dbSeen, redisSeen, incrCalls>>

----------------------------------------------------------------------------
\* Flask: GET /counter

\* Faulty variant of CounterIncr: the new value is computed by the view and
\* never written back (a lost update).
CounterIncrLost(r) ==
    /\ pc[r] = "c_incr"
    /\ cache # "silent"
    /\ incrCalls' = [incrCalls EXCEPT ![r] = @ + 1]
    /\ redisSeen' = [redisSeen EXCEPT ![r] = cache]
    /\ connRedis' = [connRedis EXCEPT ![r] = RedisHolds(cache)]
    /\ IF cache = "up"
       THEN /\ count' = [count EXCEPT ![r] = hits + 1]
            /\ pc' = [pc EXCEPT ![r] = "c_ret"]
            /\ UNCHANGED response
       ELSE /\ response' = [response EXCEPT ![r] = InternalServerError]
            /\ pc' = [pc EXCEPT ![r] = "done"]
            /\ UNCHANGED count
    /\ UNCHANGED <<db, cache, hits, startHits, kind, db_status, redis_status,
                   connDb, dbSeen>>

\* r = get_redis(); count = r.incr('hits'): no try/except, an exception of
\* the client leaves the view and Flask answers 500.
CounterIncr(r) ==
    /\ pc[r] = "c_incr"
    /\ cache # "silent"
    /\ incrCalls' = [incrCalls EXCEPT ![r] = @ + 1]
    /\ redisSeen' = [redisSeen EXCEPT ![r] = cache]
    /\ connRedis' = [connRedis EXCEPT ![r] = RedisHolds(cache)]
    /\ IF cache = "up"
       THEN /\ hits' = StoreIncr(hits)
            /\ count' = [count EXCEPT ![r] = StoreIncr(hits)]
            /\ pc' = [pc EXCEPT ![r] = "c_ret"]
            /\ UNCHANGED response
       ELSE /\ response' = [response EXCEPT ![r] = InternalServerError]
            /\ pc' = [pc EXCEPT ![r] = "done"]
            /\ UNCHANGED <<hits, count>>
    /\ UNCHANGED <<db, cache, startHits, kind, db_status, redis_status,
                   connDb, dbSeen>>

\* Faulty variant of CounterReturn: the view answers with the value the store
\* holds when it returns, not with the value its own increment returned.
CounterReturnReread(r) ==
    /\ pc[r] = "c_ret"
    /\ response' = [response EXCEPT ![r] = jsonify(<< <<"visits", hits>> >>)]
    /\ pc' = [pc EXCEPT ![r] = "done"]
    /\ UNCHANGED <<db, cache, hits, startHits, kind, db_status, redis_status,
                   count, connDb, connRedis, dbSeen, redisSeen, incrCalls>>

\* return jsonify({'visits': count})
CounterReturn(r) ==
    /\ pc[r] = "c_ret"
    /\ response' = [response EXCEPT ![r] = jsonify(<< <<"visits", count[r]>> >>)]
    /\ pc' = [pc EXCEPT ![r] = "done"]
    /\ UNCHANGED <<db, cache, hits, startHits, kind, db_status, redis_status,
                   count, connDb, connRedis, dbSeen, redisSeen, incrCalls>>

\* The Redis client of a returned view is garbage; nothing in the view closes
\* it, its connection goes when the runtime finalises the client.
Collect(r) ==
    /\ pc[r] = "done"
    /\ connRedis[r]
    /\ connRedis' = [connRedis EXCEPT ![r] = FALSE]
    /\ UNCHANGED <<db, cache, hits, startHits, kind, pc, db_status,
                   redis_status, count, response, connDb, dbSeen, redisSeen,
                   incrCalls>>

----------------------------------------------------------------------------
\* Django: GET / and GET /health/

\* db_status = 'connected'; try: with connection.cursor() as cursor:
\*     cursor.execute("SELECT 1")  except Exception as e: db_status = ...
DjHomeProbe(r) ==
    /\ pc[r] = "dj_probe"
    /\ db # "silent"
    /\ dbSeen' = [dbSeen EXCEPT ![r] = db]
    /\ connDb' = [connDb EXCEPT ![r] = (db = "up")]
    /\ db_status' = [db_status EXCEPT ![r] =
           IF db = "up" THEN Connected ELSE ErrorStatus(DbDetail(db))]
    /\ pc' = [pc EXCEPT ![r] = "dj_ret"]
    /\ UNCHANGED <<db, cache, hits, startHits, kind, redis_status, count,
                   response, connRedis, redisSeen, incrCalls>>

\* return JsonResponse({...}); CONN_MAX_AGE is not set, so the framework
\* closes the request's database connection when the request finishes.
DjHomeReturn(r) ==
    /\ pc[r] = "dj_ret"
    /\ response' = [response EXCEPT ![r] =
           JsonResponse(<< <<"message", "Hello from Django!">>,
                           <<"hostname", Hostname>>,
                           <<"environment", AppEnv>>,
                           <<"database", db_status[r]>> >>)]
    /\ connDb' = [connDb EXCEPT ![r] = FALSE]
    /\ pc' = [pc EXCEPT ![r] = "done"]
    /\ UNCHANGED <<db, cache, hits, startHits, kind, db_status, redis_status,
                   count, connRedis, dbSeen, redisSeen, incrCalls>>

DjHealth(r) ==
    /\ pc[r] = "dj_health"
    /\ response' = [response EXCEPT ![r] =
           JsonResponse(<< <<"status", "healthy">> >>)]
    /\ pc' = [pc EXCEPT ![r] = "done"]
    /\ UNCHANGED <<db, cache, hits, startHits, kind, db_status, redis_status,
                   count, connDb, connRedis, dbSeen, redisSeen, incrCalls>>

----------------------------------------------------------------------------
FlaskHealthStep(r) ==
    \/ HealthDbConnect(r)
    \/ HealthDbClose(r)
    \/ HealthRedisPing(r)
    \/ HealthReturn(r)

CounterStep(r) ==
    \/ CounterIncr(r)
    \/ CounterReturn(r)

DjangoStep(r) ==
    \/ DjHomeProbe(r)
    \/ DjHomeReturn(r)
    \/ DjHealth(r)

Step(r) ==
    \/ Home(r)
    \/ FlaskHealthStep(r)
    \/ CounterStep(r)
    \/ DjangoStep(r)

Next ==
    \/ DbChange
    \/ CacheChange
    \/ \E r \in Req : Step(r)
    \/ \E r \in Req : Collect(r)

\* Both apps, every endpoint.
Spec == Init /\ [][Next]_vars

\* The health endpoints of both apps.
HealthKinds == {"health", "dj_home", "dj_health"}
HealthInit == InitOf(HealthKinds, NumProbeReq, {0})
HealthNext ==
    \/ DbChange
    \/ CacheChange
    \/ \E r \in Req : FlaskHealthStep(r)
    \/ \E r \in Req : DjangoStep(r)
    \/ \E r \in Req : Collect(r)
HealthSpec == HealthInit /\ [][HealthNext]_vars

\* The Flask app: GET /, /health and /counter.
FlaskKinds == {"home", "health", "counter"}
FlaskInit == InitOf(FlaskKinds, NumProbeReq, {0})
FlaskNext ==
    \/ DbChange
    \/ CacheChange
    \/ \E r \in Req : Home(r)
    \/ \E r \in Req : FlaskHealthStep(r)
    \/ \E r \in Req : CounterStep(r)
    \/ \E r \in Req : Collect(r)
FlaskSpec == FlaskInit /\ [][FlaskNext]_vars

\* GET /counter and GET / of the Flask app.
CounterKinds == {"home", "counter"}
CounterInit == InitOf(CounterKinds, NumReq, 0..MaxStartHits)
CounterNext ==
    \/ DbChange
    \/ CacheChange
    \/ \E r \in Req : Home(r)
    \/ \E r \in Req : CounterStep(r)
    \/ \E r \in Req : Collect(r)
CounterSpec == CounterInit /\ [][CounterNext]_vars

\* The health endpoints under the scheduling of the server: a handler whose
\* next step is possible again and again eventually takes it (a call that
\* waits for a dependency returns once the dependency answers).
FairSpec ==
    HealthSpec /\ \A r \in Req : SF_vars(FlaskHealthStep(r) \/ DjangoStep(r))

----------------------------------------------------------------------------
\* Properties.

Done(r) == pc[r] = "done"
Active == {r \in Req : kind[r] # "none"}
OfKind(k) == {r \in Req : kind[r] = k}

\* The counter requests whose increment the store has executed.
Incremented == {r \in OfKind("counter") : redisSeen[r] = "up"}
\* The value the store returned to r (its response carries it once r is done).
Visits(r) == IF Done(r) THEN Get(response[r], "visits") ELSE count[r]

\* Every dependency probed by r answered.
AllReachable(r) == dbSeen[r] \in {"none", "up"} /\ redisSeen[r] \in {"none", "up"}

\* C1: the status of a health report is 'healthy' iff every dependency probed
\* in that request was reachable, and 'degraded' otherwise.
C1_StatusIffAllReachable ==
    \A r \in OfKind("health") \cup OfKind("dj_health") :
        Done(r) =>
            Get(response[r], "status") =
                IF AllReachable(r) THEN "healthy" ELSE "degraded"

\* C2: the values returned to the counter requests whose increment was
\* executed are pairwise distinct and are exactly startHits+1 .. hits, and
\* hits is startHits plus the number of those requests: no interleaving
\* loses or duplicates an increment.
C2_ConcurrentIncrements ==
    /\ \A r1, r2 \in Incremented : r1 # r2 => Visits(r1) # Visits(r2)
    /\ {Visits(r) : r \in Incremented} = (startHits + 1)..hits
    /\ hits = startHits + Cardinality(Incremented)

\* All NumReq requests are counter requests, all got a value, the store was
\* not fresh, and the first request was served last.
C2_Witness ==
    /\ \A r \in Req : kind[r] = "counter" /\ Done(r) /\ response[r].code = 200
    /\ startHits = 1
    /\ hits = startHits + NumReq
    /\ Get(response[1], "visits") = hits
    /\ Get(response[NumReq], "visits") = startHits + 1

\* C3: a counter request that found the cache unreachable ends with status
\* 503 and without a visits value.
C3_Unavailable503 ==
    \A r \in OfKind("counter") :
        (Done(r) /\ redisSeen[r] # "up") =>
            /\ response[r].code = 503
            /\ ~HasKey(response[r], "visits")

\* C4: a request that probes a dependency ends with status 200 and a report,
\* whatever the probes hit; a finished request has a response.
C4_HealthAlways200 ==
    \A r \in OfKind("health") \cup OfKind("dj_home") :
        Done(r) =>
            /\ response[r].code = 200
            /\ HasKey(response[r], "database")
            /\ kind[r] = "health" =>
                   HasKey(response[r], "redis") /\ HasKey(response[r], "status")

\* A Flask health request has answered 200 although both probes failed.
C4_Witness ==
    \E r \in OfKind("health") :
        /\ Done(r)
        /\ dbSeen[r] = "authfail"
        /\ redisSeen[r] = "refused"
        /\ response[r].code = 200

DbEntryOf(r) ==
    IF dbSeen[r] = "up" THEN Connected ELSE ErrorStatus(DbDetail(dbSeen[r]))
RedisEntryOf(r) ==
    IF redisSeen[r] = "up" THEN Connected
    ELSE ErrorStatus(RedisDetail(redisSeen[r]))

\* C5: every entry of a report is the outcome of the probe issued for that
\* dependency in the same request: 'connected' iff it succeeded, 'error: '
\* and a non-empty detail iff it failed; the cache is probed and reported
\* also when the database probe failed.
C5_EntriesReflectProbes ==
    /\ \A r \in OfKind("health") \cup OfKind("dj_home") :
           Done(r) =>
               /\ dbSeen[r] # "none"
               /\ Get(response[r], "database") = DbEntryOf(r)
               /\ (Get(response[r], "database") = Connected) <=> (dbSeen[r] = "up")
               /\ dbSeen[r] # "up" => DbDetail(dbSeen[r]) # ""
    /\ \A r \in OfKind("health") :
           Done(r) =>
               /\ redisSeen[r] # "none"
               /\ Get(response[r], "redis") = RedisEntryOf(r)
               /\ (Get(response[r], "redis") = Connected) <=> (redisSeen[r] = "up")
               /\ redisSeen[r] # "up" => RedisDetail(redisSeen[r]) # ""

\* Two finished requests report different states of the database, and the
\* one whose database probe failed reports the cache as connected.
C5_Witness ==
    \E r1, r2 \in Active :
        /\ Done(r1) /\ Done(r2)
        /\ kind[r1] = "health"
        /\ Get(response[r1], "database") = ErrorStatus(DbDetail("refused"))
        /\ Get(response[r1], "redis") = Connected
        /\ kind[r2] \in {"health", "dj_home"}
        /\ Get(response[r2], "database") = Connected

\* C6: the stored value never decreases; it changes only by a counter
\* request's increment, by exactly 1, and that request returns the value
\* just stored.
C6_MonotoneByOne ==
    /\ [][/\ hits' >= hits
          /\ hits' # hits =>
                 /\ hits' = hits + 1
                 /\ \E r \in OfKind("counter") :
                        /\ pc[r] = "c_incr" /\ pc'[r] = "c_ret"
                        /\ count'[r] = hits'
          /\ \A r \in OfKind("counter") :
                 (pc[r] = "c_incr" /\ pc'[r] = "c_ret") => hits' = hits + 1
          /\ \A r \in OfKind("counter") :
                 (pc[r] = "c_ret" /\ pc'[r] = "done") =>
                     /\ response'[r].code = 200
                     /\ Get(response'[r], "visits") = count[r]]_vars

\* Fresh store, three counter requests answered 1, 2 and 3.
C6_Witness ==
    /\ startHits = 0
    /\ hits = 3
    /\ \A r \in 1..3 :
           /\ kind[r] = "counter" /\ Done(r)
           /\ response[r].code = 200
           /\ Get(response[r], "visits") = r

\* C7: every request that probes a dependency eventually has its response.
C7_ProbesComplete ==
    \A r \in Req :
        (kind[r] \in {"health", "dj_home"}) ~> Done(r)

\* C8: a finished request holds no connection.
C8_NoConnectionHeld ==
    \A r \in Req : Done(r) => ~connDb[r] /\ ~connRedis[r]

\* C9: the database's entry precedes the cache's in the report, and the
\* cache probe is never answered before the database probe.
C9_ReportOrder ==
    \A r \in OfKind("health") :
        /\ redisSeen[r] # "none" => dbSeen[r] # "none"
        /\ Done(r) =>
               Index(response[r], "database") < Index(response[r], "redis")

\* A report with two distinguishable entries: the database failed, the cache
\* answered.
C9_Witness ==
    \E r \in OfKind("health") :
        /\ Done(r)
        /\ dbSeen[r] = "refused" /\ redisSeen[r] = "up"
        /\ response[r].body[1] = <<"database", ErrorStatus(DbDetail("refused"))>>
        /\ response[r].body[2] = <<"redis", Connected>>

\* C10: the stored value changes only in the increment step of a counter
\* request; a counter request sends exactly one increment request, the other
\* requests send none.
C10_OnlyCounterWrites ==
    /\ [][hits' # hits =>
              \E r \in OfKind("counter") :
                  /\ pc[r] = "c_incr" /\ pc'[r] # "c_incr"
                  /\ \A q \in Req \ {r} : pc'[q] = pc[q]]_vars
    /\ [](\A r \in Req :
              incrCalls[r] =
                  IF kind[r] = "counter" /\ pc[r] # "c_incr" THEN 1 ELSE 0)

\* A health request with a failed probe and a counter request have finished,
\* and the stored value has grown by the one increment.
C10_Witness ==
    \E r1, r2 \in Active :
        /\ kind[r1] = "health" /\ Done(r1) /\ dbSeen[r1] = "refused"
        /\ kind[r2] = "counter" /\ Done(r2) /\ response[r2].code = 200
        /\ hits = startHits + 1

====
